---- MODULE Spec2Model ----
(***************************************************************************)
(* ROR13 hash-based function resolver                                      *)
(* (techniques/dynamic-function-resolution/POC/ror13_resolver.c).          *)
(*                                                                         *)
(* A DWORD is the pair <<hi, lo>> of its two 16-bit halves, so that every  *)
(* 32-bit operation is computed exactly, modulo 2^32.                      *)
(***************************************************************************)
EXTENDS Integers, Sequences, FiniteSets, TLC

VARIABLES
    char_signed,    \* whether the build's plain char is signed
    hin,            \* a function called on its own: which function, on what
    hout,           \* ... and what it returned
    Ldr,            \* PEB->Ldr
    Flink,          \* InMemoryOrderLinks.Flink of the list head and entries
    DllBase,        \* DllBase of every loaded module's LDR_DATA_TABLE_ENTRY
    load_order,     \* the loaded modules, in the order the loader linked them
    g_cache,        \* CACHE_ENTRY g_cache[MAX_CACHE_ENTRIES]
    g_cache_count,  \* int g_cache_count
    last,           \* the last resolve_cached call and what it did
    loader_changed, \* whether the module list changed since that call
    undefined,      \* the process has read through an invalid pointer
    boot_i,         \* the caller's startup loop: next export to resolve
    boot_n,         \* ... and how many it resolves
    thr,            \* the threads inside resolve_cached: position and locals
    oob_write       \* a store has landed outside g_cache[0..255]

hashVars == << hin, hout >>
loaderVars == << Ldr, Flink, DllBase, load_order >>
cacheVars == << g_cache, g_cache_count >>
bootVars == << boot_i, boot_n >>
raceVars == << thr, oob_write >>
mainVars == << Ldr, Flink, DllBase, load_order, g_cache, g_cache_count, last,
               loader_changed, undefined, boot_i, boot_n, thr, oob_write >>
vars == << char_signed, hin, hout, Ldr, Flink, DllBase, load_order, g_cache,
           g_cache_count, last, loader_changed, undefined, boot_i, boot_n,
           thr, oob_write >>

(***************************************************************************)
(* 32-bit arithmetic                                                       *)
(***************************************************************************)
Half == 65536

\* (hash >> 13) | (hash << (32 - 13))
Rotr13(h) ==
    << (h[1] \div 8192) + (h[2] % 8192) * 8,
       (h[2] \div 8192) + (h[1] % 8192) * 8 >>

\* hash += d, with 32-bit wraparound
AddDword(h, d) ==
    LET lo == h[2] + d[2]
        hi == h[1] + d[1] + (lo \div Half)
    IN  << hi % Half, lo % Half >>

\* (DWORD)(*str): a plain char converts through int, so a signed char with
\* its top bit set sign-extends
DwordOfChar(b, signed) ==
    IF signed /\ b >= 128 THEN << 65535, 65280 + b >> ELSE << 0, b >>

\* (DWORD)c for a WCHAR (an unsigned 16-bit code unit)
DwordOfWchar(c) == << 0, c >>

(***************************************************************************)
(* ROR13 hashing                                                           *)
(***************************************************************************)
RECURSIVE Ror13Loop(_, _, _, _)
\* the while (*str) loop: str is the buffer, i the read position; the byte
\* after the buffer is the terminating 0
Ror13Loop(str, i, hash, signed) ==
    IF i > Len(str) \/ str[i] = 0 THEN hash
    ELSE Ror13Loop(str, i + 1,
             AddDword(Rotr13(hash), DwordOfChar(str[i], signed)), signed)

\* ror13_hash as a build with the given signedness of char compiles it
ror13_hash_in(str, signed) == Ror13Loop(str, 1, << 0, 0 >>, signed)

ror13_hash(str) == ror13_hash_in(str, char_signed)

\* if (c >= 'a' && c <= 'z') c -= 0x20;
UpcaseWcharShort(c) == IF c >= 97 /\ c < 122 THEN c - 32 ELSE c
UpcaseWchar(c) == IF c >= 97 /\ c <= 122 THEN c - 32 ELSE c

RECURSIVE UnicodeLoop(_, _, _, _)
\* the for loop over i < str->Length / sizeof(WCHAR)
UnicodeLoop(ptr, n, i, hash) ==
    IF i >= n THEN hash
    ELSE UnicodeLoop(ptr, n, i + 1,
             AddDword(Rotr13(hash), DwordOfWchar(UpcaseWchar(ptr[i + 1]))))

\* str is a UNICODE_STRING: Length in bytes, Buffer the code units
unicode_ror13_hash(str) ==
    UnicodeLoop(str.Buffer, str.Length \div 2, 0, << 0, 0 >>)

UnicodeString(units) == [Length |-> 2 * Len(units), Buffer |-> units]

(***************************************************************************)
(* Common API hashes, as the source defines them                           *)
(***************************************************************************)
HASH_KERNEL32 == << 27210, 48219 >>         \* 0x6A4ABC5B
HASH_VIRTUALALLOC == << 37295, 51796 >>     \* 0x91AFCA54
HASH_CREATETHREAD == << 16274, 34734 >>     \* 0x3F9287AE

(***************************************************************************)
(* Names, as character codes                                               *)
(***************************************************************************)
\* "VirtualAlloc"
NameVirtualAlloc == << 86, 105, 114, 116, 117, 97, 108, 65, 108, 108, 111, 99 >>
\* "CreateThread"
NameCreateThread == << 67, 114, 101, 97, 116, 101, 84, 104, 114, 101, 97, 100 >>
\* "MessageBoxA"
NameMessageBoxA == << 77, 101, 115, 115, 97, 103, 101, 66, 111, 120, 65 >>
\* "KERNEL32.DLL"
NameKernel32Upper == << 75, 69, 82, 78, 69, 76, 51, 50, 46, 68, 76, 76 >>
\* "kernel32.dll"
NameKernel32Lower == << 107, 101, 114, 110, 101, 108, 51, 50, 46, 100, 108, 108 >>
\* "USER32.dll"
NameUser32 == << 85, 83, 69, 82, 51, 50, 46, 100, 108, 108 >>
\* "test.dll"
NameTestDll == << 116, 101, 115, 116, 46, 100, 108, 108 >>
\* "Bx1" and "Axq", two names with one ROR13 hash; "Zeta", "Alpha"
NameBx1 == << 66, 120, 49 >>
NameAxq == << 65, 120, 113 >>
NameZeta == << 90, 101, 116, 97 >>
NameAlpha == << 65, 108, 112, 104, 97 >>

(***************************************************************************)
(* The process: its loader data and the images mapped in it                *)
(***************************************************************************)
NULL == 0                       \* a null HMODULE or FARPROC
NullPtr == "NULL"               \* a null PPEB_LDR_DATA or PLIST_ENTRY
LdrData == "PEB_LDR_DATA"       \* the address of the loader data
ListHead == "InMemoryOrderModuleList"   \* &pLdr->InMemoryOrderModuleList

IMAGE_DOS_SIGNATURE == 23117    \* 0x5A4D
IMAGE_NT_SIGNATURE == 17744     \* 0x00004550
MAX_CACHE_ENTRIES == 256

\* the modules the loader may map; an entry's address is the module's name
Modules == {"K32", "U32", "K32B"}

\* further images find_function_by_hash may be handed: a mapped file that is
\* no executable, an executable without an export directory, a DLL whose
\* unsorted names include two of one hash, and two DLLs with a corrupt table
TestImages == {"DataFile", "NoExports", "Collide", "BadOrdinal", "BadName"}
Images == Modules \cup TestImages

\* LDR_DATA_TABLE_ENTRY.BaseDllName
BaseDllName(m) ==
    CASE m = "K32" -> UnicodeString(NameKernel32Upper)
      [] m = "K32B" -> UnicodeString(NameKernel32Lower)
      [] m = "U32" -> UnicodeString(NameUser32)
      [] m \in TestImages -> UnicodeString(NameTestDll)

\* the addresses the loader may map a module at
Bases(m) ==
    CASE m = "K32" -> {65536}
      [] m = "K32B" -> {131072}
      [] m = "U32" -> {196608, 262144}
      [] m \in TestImages -> {4194304}

\* the i-th of KERNEL32's further exports: "F" and two letters of 'A'..'P'
NumFillers == MAX_CACHE_ENTRIES
FillerName(i) == << 70, 65 + ((i - 1) \div 16), 65 + ((i - 1) % 16) >>

\* What find_function_by_hash reads of an image: e_magic, the Signature at
\* e_lfanew, the export directory's VirtualAddress, and the directory's
\* NumberOfNames and three tables (names by their strings, ordinals and
\* function RVAs as stored: ordinals index Functions from 0).  NameOutside
\* holds the indexes i whose pNames[i] is an offset beyond the image.
Kernel32Image ==
    [e_magic |-> IMAGE_DOS_SIGNATURE, Signature |-> IMAGE_NT_SIGNATURE,
     export_rva |-> 512, NumberOfNames |-> 2 + NumFillers,
     Names |-> << NameVirtualAlloc, NameCreateThread >>
                   \o [i \in 1..NumFillers |-> FillerName(i)],
     Ordinals |-> << 1, 0 >> \o [i \in 1..NumFillers |-> i + 1],
     Functions |-> << 4112, 4096 >> \o [i \in 1..NumFillers |-> 8192 + 16 * i],
     NameOutside |-> {}]

User32Image ==
    [e_magic |-> IMAGE_DOS_SIGNATURE, Signature |-> IMAGE_NT_SIGNATURE,
     export_rva |-> 512, NumberOfNames |-> 1,
     Names |-> << NameMessageBoxA >>, Ordinals |-> << 0 >>,
     Functions |-> << 4096 >>, NameOutside |-> {}]

\* a second file named kernel32.dll whose NT signature is not "PE\0\0"
Kernel32BImage ==
    [e_magic |-> IMAGE_DOS_SIGNATURE, Signature |-> 0,
     export_rva |-> 512, NumberOfNames |-> 1,
     Names |-> << NameVirtualAlloc >>, Ordinals |-> << 0 >>,
     Functions |-> << 4096 >>, NameOutside |-> {}]

\* a mapped file whose first two bytes are not "MZ"
DataFileImage ==
    [e_magic |-> 0, Signature |-> IMAGE_NT_SIGNATURE,
     export_rva |-> 512, NumberOfNames |-> 1,
     Names |-> << NameVirtualAlloc >>, Ordinals |-> << 0 >>,
     Functions |-> << 4096 >>, NameOutside |-> {}]

\* an executable whose export data directory entry is zero (what follows
\* the headers at offset 0 is not an export directory)
NoExportsImage ==
    [e_magic |-> IMAGE_DOS_SIGNATURE, Signature |-> IMAGE_NT_SIGNATURE,
     export_rva |-> 0, NumberOfNames |-> 1,
     Names |-> << NameVirtualAlloc >>, Ordinals |-> << 0 >>,
     Functions |-> << 4096 >>, NameOutside |-> {}]

\* names stored out of alphabetical order, the first and third of one hash
CollideImage ==
    [e_magic |-> IMAGE_DOS_SIGNATURE, Signature |-> IMAGE_NT_SIGNATURE,
     export_rva |-> 512, NumberOfNames |-> 4,
     Names |-> << NameBx1, NameZeta, NameAxq, NameAlpha >>,
     Ordinals |-> << 2, 0, 3, 1 >>,
     Functions |-> << 4096, 4112, 4128, 4144 >>, NameOutside |-> {}]

\* the ordinal of "Zeta" indexes past the two entries of the function table
BadOrdinalImage ==
    [e_magic |-> IMAGE_DOS_SIGNATURE, Signature |-> IMAGE_NT_SIGNATURE,
     export_rva |-> 512, NumberOfNames |-> 2,
     Names |-> << NameAlpha, NameZeta >>, Ordinals |-> << 1, 7 >>,
     Functions |-> << 4096, 4112 >>, NameOutside |-> {}]

\* pNames[1] is an offset beyond the image (the name kept for that index is
\* never read: the code reads what lies at the offset)
BadNameImage ==
    [e_magic |-> IMAGE_DOS_SIGNATURE, Signature |-> IMAGE_NT_SIGNATURE,
     export_rva |-> 512, NumberOfNames |-> 3,
     Names |-> << NameAlpha, << >>, NameZeta >>, Ordinals |-> << 0, 1, 2 >>,
     Functions |-> << 4096, 4112, 4128 >>, NameOutside |-> {1}]

Image(m) ==
    CASE m = "K32" -> Kernel32Image
      [] m = "K32B" -> Kernel32BImage
      [] m = "U32" -> User32Image
      [] m = "DataFile" -> DataFileImage
      [] m = "NoExports" -> NoExportsImage
      [] m = "Collide" -> CollideImage
      [] m = "BadOrdinal" -> BadOrdinalImage
      [] m = "BadName" -> BadNameImage

\* unicode_ror13_hash(&pEntry->BaseDllName) for every entry, and
\* ror13_hash(funcName) for every export name of every image under either
\* signedness of char: both functions are pure, so the values they return
\* on the process's names are computed once
BaseDllNameHashes ==
    [m \in Images |-> unicode_ror13_hash(BaseDllName(m))]

NameHashesOf(m, signed) ==
    << >> \o [i \in 1..Len(Image(m).Names) |->
                 ror13_hash_in(Image(m).Names[i], signed)]

ExportNameHashes ==
    [signed \in BOOLEAN |-> [m \in Images |-> NameHashesOf(m, signed)]]

Loaded == DOMAIN DllBase

\* the modules mapped at address h
MappedAt(h) == {m \in Loaded : DllBase[m] = h}

(***************************************************************************)
(* Module lookup                                                           *)
(***************************************************************************)
RECURSIVE WalkList(_, _, _)
\* the while (pListEntry != pListHead) loop; visited records the entries
\* whose names were hashed, in order
WalkList(pListEntry, module_hash, visited) ==
    IF pListEntry = ListHead
    THEN [ub |-> FALSE, ret |-> NULL, visited |-> visited]
    ELSE IF pListEntry \notin DOMAIN Flink
    THEN [ub |-> TRUE, ret |-> NULL, visited |-> visited]
    ELSE IF BaseDllNameHashes[pListEntry] = module_hash
    THEN [ub |-> FALSE, ret |-> DllBase[pListEntry],
          visited |-> Append(visited, pListEntry)]
    ELSE WalkList(Flink[pListEntry], module_hash, Append(visited, pListEntry))

\* pListEntry = pListHead->Flink, then the loop
WalkFromSecond(module_hash) ==
    WalkList(Flink[Flink[ListHead]], module_hash, << >>)
WalkFromHead(module_hash) == WalkList(Flink[ListHead], module_hash, << >>)

\* ub: the function read through a pointer that addresses nothing.  With
\* pPeb->Ldr null, pListHead->Flink is a read just above address 0.
find_module_by_hash(module_hash) ==
    IF Ldr = NullPtr
    THEN [ub |-> TRUE, ret |-> NULL, visited |-> << >>]
    ELSE WalkFromHead(module_hash)

(***************************************************************************)
(* Function lookup                                                         *)
(***************************************************************************)
\* pFunctions[pOrdinals[i]]
FunctionRvaByIndex(img, i) == img.Functions[i + 1]
FunctionRva(img, i) == img.Functions[img.Ordinals[i + 1] + 1]

\* the least element of a non-empty set of indexes
First(S) == CHOOSE i \in S : \A j \in S : i <= j

\* the indexes whose name hashes to function_hash
NameMatches(m, function_hash) ==
    {i \in 0..(Image(m).NumberOfNames - 1) :
        /\ i \notin Image(m).NameOutside
        /\ ExportNameHashes[char_signed][m][i + 1] = function_hash}

\* the indexes below NumberOfNames whose pNames[i] points outside the image
NamesOutside(m) ==
    Image(m).NameOutside \cap (0..(Image(m).NumberOfNames - 1))

\* (a scan that returns the module base when no name matches)
ScanNamesNoNull(m, hModule, function_hash) ==
    LET matches == NameMatches(m, function_hash)
    IN  IF matches = {}
        THEN [ub |-> FALSE, ret |-> hModule, dir |-> TRUE,
              hashed |-> Image(m).NumberOfNames]
        ELSE [ub |-> FALSE, hashed |-> First(matches) + 1, dir |-> TRUE,
              ret |-> hModule + FunctionRva(Image(m), First(matches))]

\* (a scan that returns the last match, as a search of sorted names may)
ScanNamesLastMatch(m, hModule, function_hash) ==
    LET matches == NameMatches(m, function_hash)
        last_i == CHOOSE i \in matches : \A j \in matches : j <= i
    IN  IF matches = {}
        THEN [ub |-> FALSE, ret |-> NULL, dir |-> TRUE,
              hashed |-> Image(m).NumberOfNames]
        ELSE [ub |-> FALSE, hashed |-> last_i + 1, dir |-> TRUE,
              ret |-> hModule + FunctionRva(Image(m), last_i)]

\* the for (i = 0; i < NumberOfNames; i++) loop over the image of module m
\* mapped at hModule: it stops at the first i whose name hashes to
\* function_hash; hashed counts the names it hashed.  ub: it read a name
\* through an offset that leaves the image, or a function RVA past the end
\* of the function table.
ScanNames(m, hModule, function_hash) ==
    LET stops == NameMatches(m, function_hash) \cup NamesOutside(m)
    IN  IF stops = {}
        THEN [ub |-> FALSE, ret |-> NULL, dir |-> TRUE,
              hashed |-> Image(m).NumberOfNames]
        ELSE LET i == First(stops)
             IN  IF i \in NamesOutside(m)
                 THEN [ub |-> TRUE, ret |-> NULL, dir |-> TRUE, hashed |-> i]
                 ELSE IF Image(m).Ordinals[i + 1] + 1 \in DOMAIN Image(m).Functions
                 THEN [ub |-> FALSE, hashed |-> i + 1, dir |-> TRUE,
                       ret |-> hModule + FunctionRva(Image(m), i)]
                 ELSE [ub |-> TRUE, ret |-> NULL, dir |-> TRUE,
                       hashed |-> i + 1]

\* the result of an early return: no export directory read, no name hashed
NoScan == [ub |-> FALSE, ret |-> NULL, dir |-> FALSE, hashed |-> 0]

\* (a lookup that does not test the NT signature)
find_function_by_hash_dos_only(hModule, function_hash) ==
    IF hModule = NULL THEN NoScan
    ELSE IF MappedAt(hModule) = {} THEN [NoScan EXCEPT !.ub = TRUE]
    ELSE LET m == CHOOSE n \in MappedAt(hModule) : TRUE
         IN  IF Image(m).e_magic # IMAGE_DOS_SIGNATURE THEN NoScan
             ELSE IF Image(m).export_rva = 0 THEN NoScan
             ELSE ScanNames(m, hModule, function_hash)

\* dir: whether the export directory was read
find_function_by_hash(hModule, function_hash) ==
    IF hModule = NULL THEN NoScan
    ELSE IF MappedAt(hModule) = {} THEN [NoScan EXCEPT !.ub = TRUE]
    ELSE LET m == CHOOSE n \in MappedAt(hModule) : TRUE
         IN  IF Image(m).e_magic # IMAGE_DOS_SIGNATURE THEN NoScan
             ELSE IF Image(m).Signature # IMAGE_NT_SIGNATURE THEN NoScan
             ELSE IF Image(m).export_rva = 0 THEN NoScan
             ELSE ScanNames(m, hModule, function_hash)

(***************************************************************************)
(* Cached resolver                                                         *)
(***************************************************************************)
CacheIndex == 0..(MAX_CACHE_ENTRIES - 1)

\* static storage is zero-initialised
ZeroEntry == [module_hash |-> << 0, 0 >>, function_hash |-> << 0, 0 >>,
              address |-> NULL]
ZeroCache == [i \in CacheIndex |-> ZeroEntry]

\* the "Check cache" loop: the index of the first entry below
\* g_cache_count that holds both hashes, or -1
CacheScan(module_hash, function_hash) ==
    LET hits == {i \in 0..(g_cache_count - 1) :
                    /\ g_cache[i].module_hash = module_hash
                    /\ g_cache[i].function_hash = function_hash}
    IN  IF hits = {} THEN -1 ELSE First(hits)

\* if (addr && g_cache_count < MAX_CACHE_ENTRIES)
ShouldInsertAnyResult(addr) == g_cache_count < MAX_CACHE_ENTRIES
ShouldInsertUnbounded(addr) == addr # NULL
ShouldInsert(addr) == addr # NULL /\ g_cache_count < MAX_CACHE_ENTRIES


\* g_cache[g_cache_count] = {module_hash, function_hash, addr};
\* g_cache_count++
CacheInsertNoCount(module_hash, function_hash, addr) ==
    [cache |-> [g_cache EXCEPT ![g_cache_count] =
                   [module_hash |-> module_hash,
                    function_hash |-> function_hash, address |-> addr]],
     count |-> g_cache_count]
\* (an insertion that reuses the newest slot)
CacheInsertOverLast(module_hash, function_hash, addr) ==
    LET at == IF g_cache_count = 0 THEN 0 ELSE g_cache_count - 1
    IN  [cache |-> [g_cache EXCEPT ![at] =
                       [module_hash |-> module_hash,
                        function_hash |-> function_hash, address |-> addr]],
         count |-> at + 1]
CacheInsert(module_hash, function_hash, addr) ==
    [cache |-> [g_cache EXCEPT ![g_cache_count] =
                   [module_hash |-> module_hash,
                    function_hash |-> function_hash, address |-> addr]],
     count |-> g_cache_count + 1]

CacheKeep == [cache |-> g_cache, count |-> g_cache_count]

\* the "Add to cache if space available" statement
AddToCache(module_hash, function_hash, addr) ==
    IF ShouldInsert(addr) THEN CacheInsert(module_hash, function_hash, addr)
    ELSE CacheKeep

NoWalk == [ub |-> FALSE, ret |-> NULL, visited |-> << >>]

\* The body of resolve_cached: how it answered, the address it returns, what
\* find_module_by_hash and find_function_by_hash did for it, and the globals
\* as it leaves them.
resolve_cached(module_hash, function_hash) ==
    LET i == CacheScan(module_hash, function_hash)
    IN  IF i # -1
        THEN [how |-> "hit", ret |-> g_cache[i].address,
              mod |-> NoWalk, fn |-> NoScan, globals |-> CacheKeep]
        ELSE LET mod == find_module_by_hash(module_hash)
                 fn == IF mod.ub THEN NoScan
                       ELSE find_function_by_hash(mod.ret, function_hash)
             IN  [how |-> "miss", ret |-> fn.ret, mod |-> mod, fn |-> fn,
                  globals |-> AddToCache(module_hash, function_hash, fn.ret)]

(***************************************************************************)
(* The caller and the loader                                               *)
(***************************************************************************)
NoResolve ==
    [module_hash |-> << 0, 0 >>, function_hash |-> << 0, 0 >>,
     how |-> "none", ret |-> NULL, fault |-> FALSE,
     visited |-> << >>, found |-> NULL, hashed |-> 0]

\* A read through an invalid pointer either raises an access violation or
\* yields whatever is there, and the rest of resolve_cached runs on it: it
\* returns null, or an address (16 here) that belongs to no module.
UndefinedOutcomes ==
    {[fault |-> TRUE, ret |-> NULL], [fault |-> FALSE, ret |-> NULL],
     [fault |-> FALSE, ret |-> 16]}

\* one call of resolve_cached, to its return
Call(module_hash, function_hash) ==
    LET r == resolve_cached(module_hash, function_hash)
        rec(ret, fault) ==
            [module_hash |-> module_hash,
             function_hash |-> function_hash, how |-> r.how, ret |-> ret,
             fault |-> fault, visited |-> r.mod.visited,
             found |-> r.mod.ret, hashed |-> r.fn.hashed]
    IN  /\ ~undefined
        /\ loader_changed' = FALSE
        /\ UNCHANGED << char_signed, hashVars, loaderVars, raceVars >>
        /\ IF r.mod.ub \/ r.fn.ub
           THEN \E o \in UndefinedOutcomes :
                    LET g == IF o.fault THEN CacheKeep
                             ELSE AddToCache(module_hash, function_hash, o.ret)
                    IN  /\ undefined' = TRUE
                        /\ last' = rec(o.ret, o.fault)
                        /\ g_cache' = g.cache
                        /\ g_cache_count' = g.count
           ELSE /\ undefined' = FALSE
                /\ last' = rec(r.ret, FALSE)
                /\ g_cache' = r.globals.cache
                /\ g_cache_count' = r.globals.count

\* the hashes a caller passes, computed offline by the same functions (the
\* names are ASCII, which either signedness of char hashes alike)
HashOfKernel32 == unicode_ror13_hash(UnicodeString(NameKernel32Upper))
HashOfUser32 == unicode_ror13_hash(UnicodeString(NameUser32))
HashOfVirtualAlloc == ror13_hash_in(NameVirtualAlloc, FALSE)
HashOfMessageBoxA == ror13_hash_in(NameMessageBoxA, FALSE)
HashOfFiller == << >> \o [i \in 1..NumFillers |-> ror13_hash_in(FillerName(i), FALSE)]

\* the calls a caller makes: the two of example_usage's shape that resolve,
\* a function USER32 does not export, and example_usage's own first call
Requests ==
    {<< HashOfKernel32, HashOfVirtualAlloc >>,
     << HashOfUser32, HashOfMessageBoxA >>,
     << HashOfUser32, HashOfVirtualAlloc >>,
     << HASH_KERNEL32, HASH_VIRTUALALLOC >>}

BootDone == boot_i > boot_n

\* The caller's startup loop resolves KERNEL32's further exports in table
\* order, one call per step; a single-threaded caller loads and unloads
\* nothing while it runs.
BootResolve ==
    /\ ~BootDone
    /\ Call(HashOfKernel32, HashOfFiller[boot_i])
    /\ boot_i' = boot_i + 1
    /\ UNCHANGED boot_n

Resolve(module_hash, function_hash) ==
    /\ BootDone
    /\ Call(module_hash, function_hash)
    /\ UNCHANGED bootVars

\* what is kept of the last call once the list it walked has changed
Forget(call) ==
    [call EXCEPT !.visited = << >>, !.found = NULL, !.hashed = 0]

\* the loader sets up PEB->Ldr with an empty circular list
LdrInitialize ==
    /\ ~undefined /\ BootDone
    /\ Ldr = NullPtr
    /\ Ldr' = LdrData
    /\ Flink' = [n \in {ListHead} |-> ListHead]
    /\ loader_changed' = TRUE
    /\ last' = Forget(last)
    /\ UNCHANGED << char_signed, hashVars, DllBase, load_order, cacheVars,
                    undefined, bootVars, raceVars >>

\* the loader maps m at b and links its entry at the tail of the list
LoadModule(m, b) ==
    /\ ~undefined /\ BootDone
    /\ Ldr # NullPtr
    /\ m \notin Loaded
    /\ LET tail == CHOOSE n \in DOMAIN Flink : Flink[n] = ListHead
       IN  Flink' = [n \in DOMAIN Flink \cup {m} |->
                        IF n = m THEN ListHead
                        ELSE IF n = tail THEN m ELSE Flink[n]]
    /\ DllBase' = [n \in Loaded \cup {m} |-> IF n = m THEN b ELSE DllBase[n]]
    /\ load_order' = Append(load_order, m)
    /\ loader_changed' = TRUE
    /\ last' = Forget(last)
    /\ UNCHANGED << char_signed, hashVars, Ldr, cacheVars, undefined,
                    bootVars, raceVars >>

\* the loader unlinks m's entry and unmaps the image
UnloadModule(m) ==
    /\ ~undefined /\ BootDone
    /\ m \in Loaded
    /\ LET prev == CHOOSE n \in DOMAIN Flink : Flink[n] = m
       IN  Flink' = [n \in DOMAIN Flink \ {m} |->
                        IF n = prev THEN Flink[m] ELSE Flink[n]]
    /\ DllBase' = [n \in Loaded \ {m} |-> DllBase[n]]
    /\ load_order' = SelectSeq(load_order, LAMBDA n : n # m)
    /\ loader_changed' = TRUE
    /\ last' = Forget(last)
    /\ UNCHANGED << char_signed, hashVars, Ldr, cacheVars, undefined,
                    bootVars, raceVars >>

NoCall == [fn |-> "none", arg |-> << >>]
Pending == << "pending" >>

\* the threads that may call resolve_cached at once
Threads == {"A", "B"}

\* a thread outside resolve_cached; inside, pc is the statement it is
\* about to execute and the rest are the call's arguments and locals
IdleThread ==
    [pc |-> "idle", module_hash |-> << 0, 0 >>, function_hash |-> << 0, 0 >>,
     addr |-> NULL, slot |-> -1, tmp |-> 0, ret |-> NULL]

InitIdle ==
    /\ g_cache = ZeroCache
    /\ g_cache_count = 0
    /\ last = NoResolve
    /\ loader_changed = FALSE
    /\ undefined = FALSE
    /\ boot_i = 1
    /\ thr = [t \in Threads |-> IdleThread]
    /\ oob_write = FALSE

\* The payload starts in a process whose loader has not run yet: PEB->Ldr
\* is still null, and the loader then builds the list.
Init ==
    /\ char_signed \in BOOLEAN
    /\ hin = NoCall
    /\ hout = Pending
    /\ InitIdle
    /\ Ldr = NullPtr
    /\ Flink = [n \in {} |-> n]
    /\ DllBase = [n \in {} |-> n]
    /\ load_order = << >>
    /\ boot_n = 0

Next ==
    \/ \E q \in Requests : Resolve(q[1], q[2])
    \/ LdrInitialize
    \/ \E m \in Modules : \E b \in Bases(m) : LoadModule(m, b)
    \/ \E m \in Modules : UnloadModule(m)

Spec == Init /\ [][Next]_vars

\* The payload starts in a process with KERNEL32 and USER32 mapped, where
\* its startup loop first resolves all but one of a cache-full of exports;
\* the caller loads and unloads nothing.
InitCap ==
    /\ char_signed \in BOOLEAN
    /\ hin = NoCall
    /\ hout = Pending
    /\ InitIdle
    /\ Ldr = LdrData
    /\ Flink = [n \in {ListHead, "K32", "U32"} |->
                   CASE n = ListHead -> "K32"
                     [] n = "K32" -> "U32"
                     [] n = "U32" -> ListHead]
    /\ DllBase \in {[K32 |-> k, U32 |-> u] : k \in Bases("K32"), u \in Bases("U32")}
    /\ load_order = << "K32", "U32" >>
    /\ boot_n = MAX_CACHE_ENTRIES - 1

NextCap ==
    \/ BootResolve
    \/ \E q \in Requests : Resolve(q[1], q[2])

SpecCap == InitCap /\ [][NextCap]_vars

(***************************************************************************)
(* Two threads in resolve_cached at once.  Nothing in the source orders    *)
(* their accesses to g_cache and g_cache_count, so the statements of the   *)
(* two calls interleave; each statement reads the globals as they are      *)
(* when it runs.  The cache check and the two lookups are taken as one     *)
(* step each; the insertion is taken store by store.                       *)
(***************************************************************************)
\* the pairs the racing callers ask for
RaceRequests ==
    {<< HashOfKernel32, HashOfVirtualAlloc >>,
     << HashOfUser32, HashOfMessageBoxA >>}

At(t, pc) == ~undefined /\ BootDone /\ thr[t].pc = pc

\* thread t moves to pc with the given locals changed
Goto(t, pc, locals) ==
    thr' = [thr EXCEPT ![t] = [f \in DOMAIN IdleThread |->
               IF f = "pc" THEN pc
               ELSE IF f \in DOMAIN locals THEN locals[f] ELSE thr[t][f]]]

NoLocals == [f \in {} |-> f]

RaceFrame ==
    UNCHANGED << char_signed, hashVars, loaderVars, last, loader_changed,
                 bootVars >>

\* thread t calls resolve_cached(module_hash, function_hash)
Enter(t, module_hash, function_hash) ==
    /\ At(t, "idle")
    /\ Goto(t, "check", [module_hash |-> module_hash,
                         function_hash |-> function_hash])
    /\ UNCHANGED << cacheVars, undefined, oob_write >>
    /\ RaceFrame

\* the "Check cache" loop
CheckCache(t) ==
    /\ At(t, "check")
    /\ LET i == CacheScan(thr[t].module_hash, thr[t].function_hash)
       IN  IF i # -1
           THEN Goto(t, "done", [ret |-> g_cache[i].address])
           ELSE Goto(t, "lookup", NoLocals)
    /\ UNCHANGED << cacheVars, undefined, oob_write >>
    /\ RaceFrame

\* hModule = find_module_by_hash(...); addr = find_function_by_hash(...)
Lookup(t) ==
    /\ At(t, "lookup")
    /\ LET mod == find_module_by_hash(thr[t].module_hash)
           fn == IF mod.ub THEN NoScan
                 ELSE find_function_by_hash(mod.ret, thr[t].function_hash)
       IN  /\ Goto(t, "test", [addr |-> fn.ret])
           /\ undefined' = (mod.ub \/ fn.ub)
    /\ UNCHANGED << cacheVars, oob_write >>
    /\ RaceFrame

\* if (addr && g_cache_count < MAX_CACHE_ENTRIES), else return addr
TestSpace(t) ==
    /\ At(t, "test")
    /\ IF ShouldInsert(thr[t].addr)
       THEN Goto(t, "store_module_hash", NoLocals)
       ELSE Goto(t, "done", [ret |-> thr[t].addr])
    /\ UNCHANGED << cacheVars, undefined, oob_write >>
    /\ RaceFrame

\* g_cache[g_cache_count].field = value: a store past the end of the array
\* lands on whatever follows it in memory
StoreEntry(t, pc, field, value, next) ==
    /\ At(t, pc)
    /\ IF g_cache_count \in CacheIndex
       THEN /\ g_cache' = [g_cache EXCEPT ![g_cache_count][field] = value]
            /\ UNCHANGED << undefined, oob_write >>
       ELSE /\ oob_write' = TRUE
            /\ undefined' = TRUE
            /\ UNCHANGED g_cache
    /\ Goto(t, next, [slot |-> g_cache_count])
    /\ UNCHANGED g_cache_count
    /\ RaceFrame

StoreModuleHash(t) ==
    StoreEntry(t, "store_module_hash", "module_hash", thr[t].module_hash,
               "store_function_hash")

StoreFunctionHash(t) ==
    StoreEntry(t, "store_function_hash", "function_hash",
               thr[t].function_hash, "store_address")

StoreAddress(t) ==
    StoreEntry(t, "store_address", "address", thr[t].addr, "load_count")

\* g_cache_count++ is a load ...
LoadCount(t) ==
    /\ At(t, "load_count")
    /\ Goto(t, "store_count", [tmp |-> g_cache_count])
    /\ UNCHANGED << cacheVars, undefined, oob_write >>
    /\ RaceFrame

\* ... and a store; then return addr
StoreCount(t) ==
    /\ At(t, "store_count")
    /\ g_cache_count' = thr[t].tmp + 1
    /\ Goto(t, "done", [ret |-> thr[t].addr])
    /\ UNCHANGED << g_cache, undefined, oob_write >>
    /\ RaceFrame

\* The threads start once the startup loop has left one or two free slots.
InitRace ==
    /\ char_signed \in BOOLEAN
    /\ hin = NoCall
    /\ hout = Pending
    /\ InitIdle
    /\ Ldr = LdrData
    /\ Flink = [n \in {ListHead, "K32", "U32"} |->
                   CASE n = ListHead -> "K32"
                     [] n = "K32" -> "U32"
                     [] n = "U32" -> ListHead]
    /\ DllBase = [K32 |-> 65536, U32 |-> 196608]
    /\ load_order = << "K32", "U32" >>
    /\ boot_n \in {MAX_CACHE_ENTRIES - 2, MAX_CACHE_ENTRIES - 1}

NextRace ==
    \/ BootResolve
    \/ \E t \in Threads : \E q \in RaceRequests : Enter(t, q[1], q[2])
    \/ \E t \in Threads : CheckCache(t)
    \/ \E t \in Threads : Lookup(t)
    \/ \E t \in Threads : TestSpace(t)
    \/ \E t \in Threads : StoreModuleHash(t)
    \/ \E t \in Threads : StoreFunctionHash(t)
    \/ \E t \in Threads : StoreAddress(t)
    \/ \E t \in Threads : LoadCount(t)
    \/ \E t \in Threads : StoreCount(t)

SpecRace == InitRace /\ [][NextRace]_vars

(***************************************************************************)
(* The hash engine on its own: every call on a bounded input               *)
(***************************************************************************)
MaxLen == 3

\* bytes: 0 (the terminator), 'A', 'a', 'z', 0x7F, 0x80, 0xFF
NarrowAlphabet == {0, 65, 97, 122, 127, 128, 255}
\* code units: 'A', 'Z', '`', 'a', 'z', '{', 0xE9, 0x3B1, 0xFF41, 0xFFFF
WideAlphabet == {65, 90, 96, 97, 122, 123, 233, 945, 65345, 65535}

SeqsUpTo(S, n) == UNION {[1..k -> S] : k \in 0..n}

NarrowInputs ==
    SeqsUpTo(NarrowAlphabet, MaxLen) \cup {NameVirtualAlloc, NameCreateThread}
WideInputs ==
    SeqsUpTo(WideAlphabet, MaxLen) \cup {NameKernel32Upper, NameKernel32Lower}

\* a call is drawn with its argument, then runs to completion
HashCalls ==
    [fn : {"ror13_hash"}, arg : NarrowInputs]
        \cup [fn : {"unicode_ror13_hash"}, arg : WideInputs]

HashNarrow ==
    /\ hin.fn = "ror13_hash"
    /\ hout = Pending
    /\ hout' = ror13_hash(hin.arg)
    /\ UNCHANGED << char_signed, hin, mainVars >>

HashWide ==
    /\ hin.fn = "unicode_ror13_hash"
    /\ hout = Pending
    /\ hout' = unicode_ror13_hash(UnicodeString(hin.arg))
    /\ UNCHANGED << char_signed, hin, mainVars >>

InitHash ==
    /\ char_signed \in BOOLEAN
    /\ hin \in HashCalls
    /\ hout = Pending
    /\ InitIdle
    /\ Ldr = NullPtr
    /\ Flink = [n \in {} |-> n]
    /\ DllBase = [n \in {} |-> n]
    /\ load_order = << >>
    /\ boot_n = 0

NextHash == HashNarrow \/ HashWide

SpecHash == InitHash /\ [][NextHash]_vars

(***************************************************************************)
(* find_function_by_hash on its own: every call on one mapped image        *)
(***************************************************************************)
HashOfCollision == ror13_hash_in(NameBx1, FALSE)
HashOfZeta == ror13_hash_in(NameZeta, FALSE)
HashOfAlpha == ror13_hash_in(NameAlpha, FALSE)

\* the function hashes asked for: names some image exports, and a hash
\* that no image's names have
ExportHashes ==
    {HashOfVirtualAlloc, HashOfMessageBoxA, HashOfCollision, HashOfZeta,
     HashOfAlpha, HASH_CREATETHREAD}

\* the images handed to find_function_by_hash
ExportImages == TestImages \cup {"U32", "K32B"}

\* the calls: a null module, or the base the image is mapped at
ExportCalls ==
    [fn : {"find_function_by_hash"},
     arg : {NULL, 4194304} \X ExportHashes]

\* one call of find_function_by_hash, to its return (hout then holds the
\* word "returned" and the outcome); a read outside the image faults or
\* carries on with what it read
FindExport ==
    /\ hin.fn = "find_function_by_hash"
    /\ hout = Pending
    /\ LET r == find_function_by_hash(hin.arg[1], hin.arg[2])
       IN  IF r.ub
           THEN /\ \E o \in UndefinedOutcomes :
                       hout' = << "returned",
                                  [ub |-> TRUE, fault |-> o.fault,
                                   ret |-> o.ret, dir |-> r.dir,
                                   hashed |-> r.hashed] >>
                /\ undefined' = TRUE
           ELSE /\ hout' = << "returned",
                              [ub |-> FALSE, fault |-> FALSE, ret |-> r.ret,
                               dir |-> r.dir, hashed |-> r.hashed] >>
                /\ undefined' = FALSE
    /\ UNCHANGED << char_signed, hin, loaderVars, cacheVars, last,
                    loader_changed, bootVars, raceVars >>

InitExport ==
    /\ char_signed \in BOOLEAN
    /\ hin \in ExportCalls
    /\ hout = Pending
    /\ InitIdle
    /\ Ldr = LdrData
    /\ \E m \in ExportImages :
           /\ Flink = [n \in {ListHead, m} |-> IF n = m THEN ListHead ELSE m]
           /\ DllBase = [n \in {m} |-> 4194304]
           /\ load_order = << m >>
    /\ boot_n = 0

NextExport == FindExport

SpecExport == InitExport /\ [][NextExport]_vars

(***************************************************************************)
(* Properties of the hash engine (checked under SpecHash)                  *)
(***************************************************************************)
NarrowDone == hin.fn = "ror13_hash" /\ hout # Pending
WideDone == hin.fn = "unicode_ror13_hash" /\ hout # Pending

\* the characters of a C string: the bytes before the first 0
RECURSIVE CString(_)
CString(s) ==
    IF s = << >> \/ Head(s) = 0 THEN << >> ELSE << Head(s) >> \o CString(Tail(s))

\* the reference fold: acc := (rotate-right-32(acc, 13) + v) mod 2^32 over
\* the values v, from acc = 0
RECURSIVE RefFold(_, _)
RefFold(vals, acc) ==
    IF vals = << >> THEN acc
    ELSE RefFold(Tail(vals), AddDword(Rotr13(acc), << 0, Head(vals) >>))

\* C6: the golden vectors: ror13_hash("VirtualAlloc") = 0x91AFCA54,
\* ror13_hash("CreateThread") = 0x3F9287AE and
\* unicode_ror13_hash("KERNEL32.DLL") = 0x6A4ABC5B.
C6_GoldenVectors ==
    /\ (NarrowDone /\ hin.arg = NameVirtualAlloc => hout = HASH_VIRTUALALLOC)
    /\ (NarrowDone /\ hin.arg = NameCreateThread => hout = HASH_CREATETHREAD)
    /\ (WideDone /\ hin.arg = NameKernel32Upper => hout = HASH_KERNEL32)

\* C7: ror13_hash adds each character's unsigned value: on every byte
\* string, bytes 0x80..0xFF included, it returns the reference fold of the
\* string's bytes.
C7_NarrowAddsUnsigned ==
    NarrowDone => hout = RefFold(CString(hin.arg), << 0, 0 >>)

IsLower(c) == c >= 97 /\ c <= 122
IsUpper(c) == c >= 65 /\ c <= 90
SwapCase(c) == IF IsLower(c) THEN c - 32 ELSE IF IsUpper(c) THEN c + 32 ELSE c

\* every string that differs from u only in the case of ASCII letters
RECURSIVE CaseVariants(_)
CaseVariants(u) ==
    IF u = << >> THEN {<< >>}
    ELSE {<< c >> \o t : c \in {Head(u), SwapCase(Head(u))},
                         t \in CaseVariants(Tail(u))}

FoldLower(u) == [i \in 1..Len(u) |-> IF IsLower(u[i]) THEN u[i] - 32 ELSE u[i]]

\* C8: unicode_ror13_hash is case-insensitive: changing the case of any
\* ASCII letters of the name leaves the hash unchanged, and code units
\* outside 'a'..'z' are added unmodified.
C8_WideCaseInsensitive ==
    WideDone =>
        /\ \A v \in CaseVariants(hin.arg) :
               unicode_ror13_hash(UnicodeString(v)) = hout
        /\ hout = RefFold(FoldLower(hin.arg), << 0, 0 >>)

\* C8's case: "kernel32.dll" was hashed, to the hash of "KERNEL32.DLL"
C8_Witness ==
    /\ WideDone
    /\ hin.arg = NameKernel32Lower
    /\ hout = unicode_ror13_hash(UnicodeString(NameKernel32Upper))

(***************************************************************************)
(* What the resolver should answer, read off the loader's own order and    *)
(* the export tables                                                       *)
(***************************************************************************)
RefHashWide(units) == RefFold(FoldLower(units), << 0, 0 >>)

RefModuleHash ==
    [K32 |-> RefHashWide(NameKernel32Upper),
     K32B |-> RefHashWide(NameKernel32Lower),
     U32 |-> RefHashWide(NameUser32)]
     @@ [m \in TestImages |-> RefHashWide(NameTestDll)]

\* the named exports of m: each name's hash with the RVA its ordinal selects
RefExportsOf(m) ==
    << >> \o [i \in 1..Image(m).NumberOfNames |->
                 [hash |-> RefFold(Image(m).Names[i], << 0, 0 >>),
                  rva |-> Image(m).Functions[Image(m).Ordinals[i] + 1]]]

RefExports ==
    [K32 |-> RefExportsOf("K32"), K32B |-> RefExportsOf("K32B"),
     U32 |-> RefExportsOf("U32")]

\* positions in load order of the modules whose name hashes to module_hash
RefMatches(module_hash) ==
    {i \in 1..Len(load_order) : RefModuleHash[load_order[i]] = module_hash}

RefValidImage(m) ==
    /\ Image(m).e_magic = IMAGE_DOS_SIGNATURE
    /\ Image(m).Signature = IMAGE_NT_SIGNATURE
    /\ Image(m).export_rva # 0

RefExportMatches(m, function_hash) ==
    {i \in 1..Len(RefExports[m]) : RefExports[m][i].hash = function_hash}

\* base + offset of the first export hashing to function_hash in the first
\* loaded module hashing to module_hash; NULL when there is none
RefAddress(module_hash, function_hash) ==
    IF RefMatches(module_hash) = {} THEN NULL
    ELSE LET m == load_order[First(RefMatches(module_hash))]
         IN  IF ~RefValidImage(m) \/ RefExportMatches(m, function_hash) = {}
             THEN NULL
             ELSE DllBase[m]
                      + RefExports[m][First(RefExportMatches(m, function_hash))].rva

\* the last call ran find_module_by_hash on the list as it still is, and
\* every read it made was of mapped memory
FreshMiss == last.how = "miss" /\ ~loader_changed /\ ~undefined

\* what resolve_cached would do if called again now with the last call's
\* arguments
Again == resolve_cached(last.module_hash, last.function_hash)

(***************************************************************************)
(* Properties of the resolver                                              *)
(***************************************************************************)
\* C1 as stated: whenever a call has succeeded, an immediately following
\* call with the same arguments returns the same address without walking
\* the module list or scanning an export table.
C1_SecondCallHits ==
    (last.how # "none" /\ last.ret # NULL /\ ~loader_changed /\ ~undefined)
        => /\ Again.how = "hit"
           /\ Again.ret = last.ret
           /\ Again.mod.visited = << >>
           /\ Again.fn.hashed = 0

\* C1, amended: when a call succeeds as a cache hit, or as a miss made
\* while the cache holds fewer than MAX_CACHE_ENTRIES entries, an
\* immediately following call with the same arguments returns the same
\* address without walking the module list or scanning an export table.
C1_SecondCallHitsBelowCapacity ==
    [][(/\ UNCHANGED loaderVars
        /\ ~loader_changed'
        /\ ~undefined'
        /\ last'.ret # NULL
        /\ (last'.how = "hit" \/ g_cache_count < MAX_CACHE_ENTRIES))
          => C1_SecondCallHits']_vars

\* C1's case: the second of two identical calls was answered from the cache
C1_Witness ==
    /\ last.how = "hit" /\ last.ret # NULL /\ ~loader_changed /\ ~undefined
    /\ last.visited = << >> /\ last.hashed = 0

\* C2: with MAX_CACHE_ENTRIES entries cached, a call leaves the count and
\* every entry as they were, and if it misses it still returns the address
\* of the export it names.
C2_FullCacheUntouched ==
    [][(/\ g_cache_count = MAX_CACHE_ENTRIES
        /\ UNCHANGED loaderVars
        /\ ~loader_changed'
        /\ ~undefined')
          => /\ g_cache' = g_cache
             /\ g_cache_count' = MAX_CACHE_ENTRIES
             /\ (last'.how = "miss" =>
                    last'.ret = RefAddress(last'.module_hash,
                                           last'.function_hash))]_vars

\* C2's case: a pair that is not cached was resolved with the cache full
C2_Witness ==
    /\ g_cache_count = MAX_CACHE_ENTRIES
    /\ FreshMiss
    /\ last.ret # NULL
    /\ CacheScan(last.module_hash, last.function_hash) = -1

\* C3: a call that fails leaves g_cache and g_cache_count unchanged, and
\* once the module and export a failed call named are there, the next call
\* with the same arguments returns the export's address.
C3_FailuresNotCached ==
    [][/\ (UNCHANGED loaderVars /\ last'.ret = NULL) => UNCHANGED cacheVars
       /\ (/\ last.how # "none" /\ last.ret = NULL /\ ~undefined
           /\ RefAddress(last.module_hash, last.function_hash) # NULL)
             => Again.ret = RefAddress(last.module_hash, last.function_hash)
      ]_vars

\* C3's case: a call failed, and the module it named was loaded afterwards
C3_Witness ==
    /\ last.how = "miss" /\ last.ret = NULL /\ ~undefined
    /\ loader_changed
    /\ RefAddress(last.module_hash, last.function_hash) # NULL

\* the last call named a module that is not loaded
NoModuleCase(call) == RefMatches(call.module_hash) = {}
\* ... or a loaded, valid image that exports no such function
NoFunctionCase(call) ==
    /\ RefMatches(call.module_hash) # {}
    /\ LET m == load_order[First(RefMatches(call.module_hash))]
       IN  RefValidImage(m) /\ RefExportMatches(m, call.function_hash) = {}

\* C4 as stated: a call naming no loaded module and a call naming a loaded
\* module but none of its exports end in two distinct results: when the
\* second follows the first, it returns something else than the first did.
C4_DistinctOutcomes ==
    [][(/\ FreshMiss /\ NoModuleCase(last)
        /\ FreshMiss' /\ NoFunctionCase(last)' /\ UNCHANGED loaderVars)
          => last'.ret # last.ret]_vars

\* C4, amended: on a miss, a call naming no loaded module returns NULL
\* after walking the whole list and scanning no export table, and a call
\* naming a loaded module but none of its exports returns the same NULL
\* after scanning all of that module's names.
C4_NotFoundIsNull ==
    FreshMiss =>
        /\ NoModuleCase(last) =>
              /\ last.ret = NULL
              /\ last.found = NULL
              /\ last.visited = load_order
              /\ last.hashed = 0
        /\ NoFunctionCase(last) =>
              /\ last.ret = NULL
              /\ last.found # NULL
              /\ \E m \in MappedAt(last.found) :
                     last.hashed = Image(m).NumberOfNames

\* C4's case: USER32 is loaded and was asked for a function it lacks
C4_Witness ==
    /\ FreshMiss
    /\ NoFunctionCase(last)
    /\ last.module_hash = HashOfUser32

\* C5: a call that misses the cache returns the base of the first loaded
\* module whose name hashes to module_hash plus the offset of that
\* module's matching export, or NULL when there is none.
C5_EndToEnd ==
    FreshMiss => last.ret = RefAddress(last.module_hash, last.function_hash)

\* C5's case: with KERNEL32 and USER32 mapped, MessageBoxA came from USER32
C5_Witness ==
    /\ FreshMiss
    /\ {"K32", "U32"} \subseteq Loaded
    /\ last.module_hash = HashOfUser32
    /\ last.function_hash = HashOfMessageBoxA
    /\ last.ret = DllBase["U32"] + 4096

\* C9: find_module_by_hash visits the entries in list order from the one
\* after the head, stops at the first whose name hashes to the target and
\* returns its base, and returns NULL exactly when it has visited every
\* entry without a match.
C9_WalkInListOrder ==
    FreshMiss =>
        IF RefMatches(last.module_hash) = {}
        THEN last.visited = load_order /\ last.found = NULL
        ELSE LET k == First(RefMatches(last.module_hash))
             IN  /\ last.visited = SubSeq(load_order, 1, k)
                 /\ last.found = DllBase[load_order[k]]
                 /\ last.found # NULL

\* C9's case: two loaded modules match and the first is not the list's
\* first entry
C9_Witness ==
    /\ FreshMiss
    /\ Cardinality(RefMatches(last.module_hash)) = 2
    /\ Len(last.visited) = 2

\* C10: when PEB->Ldr is null the call reads through no invalid pointer
\* and returns NULL.
C10_UnreadableListIsNotFound ==
    (last.how = "miss" /\ Ldr = NullPtr)
        => ~undefined /\ ~last.fault /\ last.ret = NULL

(***************************************************************************)
(* Properties of find_function_by_hash (checked under SpecExport)          *)
(***************************************************************************)
ExportDone == hin.fn = "find_function_by_hash" /\ hout # Pending

\* the image the call was made on, and the call's arguments
CalledImage == Image(load_order[1])
CalledModule == hin.arg[1]
CalledHash == hin.arg[2]
Returned == hout[2]

\* the 0-based indexes of the image's names whose reference hash is h
RefNameMatches(img, h) ==
    {i \in 0..(img.NumberOfNames - 1) :
        i \notin img.NameOutside /\ RefFold(img.Names[i + 1], << 0, 0 >>) = h}

\* the 0-based indexes at which the tables are corrupt for a scan for h: a
\* name offset outside the image, or a name of hash h whose ordinal is not
\* below the number of functions
RefCorruptAt(img, h) ==
    {i \in 0..(img.NumberOfNames - 1) :
        \/ i \in img.NameOutside
        \/ /\ i \in RefNameMatches(img, h)
           /\ img.Ordinals[i + 1] >= Len(img.Functions)}

\* C11: a null module, a wrong e_magic or a wrong NT signature each return
\* NULL without reading the export directory, and a zero export directory
\* offset returns NULL without hashing any name.
C11_ValidatesModule ==
    ExportDone =>
        /\ (\/ CalledModule = NULL
            \/ CalledImage.e_magic # IMAGE_DOS_SIGNATURE
            \/ CalledImage.Signature # IMAGE_NT_SIGNATURE)
              => /\ Returned.ret = NULL
                 /\ ~Returned.ub /\ ~Returned.fault
                 /\ ~Returned.dir
                 /\ Returned.hashed = 0
        /\ (CalledModule # NULL /\ CalledImage.export_rva = 0)
              => /\ Returned.ret = NULL
                 /\ ~Returned.ub /\ ~Returned.fault
                 /\ Returned.hashed = 0

\* C11's case: the image with a wrong NT signature was asked for a name it
\* holds, and the one without an export directory likewise
C11_Witness ==
    /\ ExportDone
    /\ CalledModule # NULL
    /\ load_order[1] \in {"K32B", "NoExports"}
    /\ CalledHash = HashOfVirtualAlloc
    /\ Returned.ret = NULL

\* C12: on a valid image with sound tables the scan returns
\* base + functions[ordinals[i]] for the smallest index i whose name hashes
\* to the target, whatever the order of the names and however many names
\* share the hash, after hashing names 0..i only; it returns NULL, after
\* hashing every name, only when no index matches.
C12_FirstMatchInStoredOrder ==
    (/\ ExportDone
     /\ CalledModule # NULL
     /\ CalledImage.e_magic = IMAGE_DOS_SIGNATURE
     /\ CalledImage.Signature = IMAGE_NT_SIGNATURE
     /\ CalledImage.export_rva # 0
     /\ RefCorruptAt(CalledImage, CalledHash) = {})
        => LET ms == RefNameMatches(CalledImage, CalledHash)
           IN  /\ ~Returned.ub
               /\ IF ms = {}
                  THEN /\ Returned.ret = NULL
                       /\ Returned.hashed = CalledImage.NumberOfNames
                  ELSE \E i \in ms :
                          /\ \A j \in ms : i <= j
                          /\ Returned.hashed = i + 1
                          /\ Returned.ret = CalledModule
                                + CalledImage.Functions[
                                      CalledImage.Ordinals[i + 1] + 1]

\* C12's case: "Bx1" and "Axq" have one hash, and the scan answered with
\* the function of "Bx1", the earlier of the two in the unsorted table
C12_Witness ==
    /\ ExportDone
    /\ load_order[1] = "Collide"
    /\ CalledModule # NULL
    /\ CalledHash = HashOfCollision
    /\ Cardinality(RefNameMatches(CalledImage, CalledHash)) = 2
    /\ Returned.ret = CalledModule + 4128

\* C14: when the scan comes to a name offset outside the image, or to a
\* matching name whose ordinal is not below the number of functions, the
\* call returns NULL and has read nothing outside the image's tables.
C14_MalformedRejected ==
    (/\ ExportDone
     /\ CalledModule # NULL
     /\ CalledImage.e_magic = IMAGE_DOS_SIGNATURE
     /\ CalledImage.Signature = IMAGE_NT_SIGNATURE
     /\ CalledImage.export_rva # 0
     /\ \E i \in RefCorruptAt(CalledImage, CalledHash) :
            \A j \in RefNameMatches(CalledImage, CalledHash) : i <= j)
        => ~Returned.ub /\ ~Returned.fault /\ Returned.ret = NULL

(***************************************************************************)
(* Properties of concurrent calls (checked under SpecRace)                 *)
(***************************************************************************)
\* a thread is checking the cache while a slot the check reads is between
\* the store of its key and the store of its address
TornSlotVisible ==
    \E t, u \in Threads :
        /\ t # u
        /\ thr[t].pc = "check"
        /\ thr[u].pc \in {"store_function_hash", "store_address"}
        /\ thr[u].slot < g_cache_count

\* C13: however two calls interleave, each returns the address of the
\* export it names, g_cache_count never exceeds MAX_CACHE_ENTRIES, no store
\* lands outside g_cache[0..255], and no cache check reads a slot whose key
\* is stored but whose address is not.
C13_ConcurrentHarmless ==
    /\ g_cache_count <= MAX_CACHE_ENTRIES
    /\ ~oob_write
    /\ \A t \in Threads :
           thr[t].pc = "done" =>
               thr[t].ret = RefAddress(thr[t].module_hash,
                                       thr[t].function_hash)
    /\ ~TornSlotVisible

(***************************************************************************)
(* Properties of the cache over the caller's and the loader's steps        *)
(* (checked under Spec)                                                    *)
(***************************************************************************)
\* the slots in use
Stored == 0..(g_cache_count - 1)

\* slot i holds the pair of hashes of the given call
HoldsPairOf(i, call) ==
    /\ g_cache[i].module_hash = call.module_hash
    /\ g_cache[i].function_hash = call.function_hash

\* C15: over calls, loads, unloads and reloads, g_cache_count never
\* decreases and stays within 0..MAX_CACHE_ENTRIES, no slot in use is ever
\* written again, no pair of hashes is stored in two slots, and a call for
\* a pair stored with address a returns a, wherever the module is now.
C15_NeverUpdatedOrEvicted ==
    [][/\ g_cache_count' >= g_cache_count
       /\ g_cache_count' \in 0..MAX_CACHE_ENTRIES
       /\ \A i \in Stored : g_cache'[i] = g_cache[i]
       /\ \A i, j \in Stored' :
              (/\ g_cache'[i].module_hash = g_cache'[j].module_hash
               /\ g_cache'[i].function_hash = g_cache'[j].function_hash)
                  => i = j
       /\ ~loader_changed' =>
              \A i \in Stored :
                  HoldsPairOf(i, last') =>
                      last'.how = "hit" /\ last'.ret = g_cache[i].address
      ]_vars

\* C15's case: MessageBoxA was cached, USER32 was unloaded and loaded again
\* at another base, and the next call returned the address cached before
C15_Witness ==
    /\ last.how = "hit"
    /\ ~loader_changed /\ ~undefined
    /\ last.module_hash = HashOfUser32
    /\ last.function_hash = HashOfMessageBoxA
    /\ "U32" \in Loaded
    /\ last.ret # NULL
    /\ last.ret # DllBase["U32"] + 4096

====
